---- MODULE Spec2Model ----
(***************************************************************************)
(* Request execution and retry / error classification of the BitMEX REST   *)
(* connector (src/bitmex/bitmex.py): TradeClient._curl_bitmex_private, the  *)
(* authenticated dispatcher, TradeClient._curl_bitmex, the public one, and  *)
(* the facade methods that call them.                                       *)
(*                                                                          *)
(* A thread runs one logical call at a time.  A call is a stack of          *)
(* dispatcher frames: the frame of the call itself and, above it, the       *)
(* frames of the calls its handlers make (active_orders and cancel during   *)
(* rate-limit recovery, the order re-fetch of duplicate-clOrdID recovery).  *)
(* retry() re-enters the dispatcher with the same arguments, so it is       *)
(* modelled as the frame going back to "send".  Each dispatch prepares the  *)
(* request anew: a frame keeps the auth headers of its last dispatch and    *)
(* the clock reading they were computed at.                                 *)
(*                                                                          *)
(* SpecOrder runs the order facade (buy, sell, place_order) in front of the *)
(* authenticated dispatcher; SpecStatus applies readOrderStatus of          *)
(* src/bitmex_om.py to the acknowledgements of the exchange.                *)
(***************************************************************************)
EXTENDS Integers, Sequences, FiniteSets, TLC

\* ------------------------------------------------------------------ bounds
\* Dispatches of its own request one logical call makes.
MaxDispatch == 5
\* 429 responses one logical call meets (its own and its nested requests').
Max429 == 4
\* Depth of the stack of dispatcher frames.
MaxDepth == 2
\* self.retries is not incremented past MaxCounter.
MaxCounter == 4
\* Orders in a bulk submission, and orders returned by a re-fetch.
MaxOrders == 1
\* Largest max_retries a caller passes as an override.
MaxOverride == 1
\* Largest quantity of an order passed to buy, sell or place_order.
MaxQty == 2
\* Latest reading of the clock, in seconds, a dispatch meets.
MaxClock == 1

\* ------------------------------------------------------- program constants
\* max_retries = 0 if verb in ['POST', 'PUT'] else 3
DefaultRetries == 3
NoRetries == 0
\* time.sleep(3) after a 503, time.sleep(1) after a connection error
Sleep503 == 3
SleepConn == 1
\* expires = int(round(time.time()) + 5)
GracePeriod == 5
\* int(round(time.time() * 10000))
NonceScale == 10000

Threads == {1, 2}

\* What one dispatch can end in: an HTTP status (400 split by its body: the
\* error message of a JSON body with an 'error' member, or a body that has
\* none), requests.exceptions.Timeout or requests.exceptions.ConnectionError.
Outcomes ==
  {"200", "400dup", "400insuf", "400other", "400nojson", "401", "404", "429",
   "500", "503", "Timeout", "ConnectionError"}
\* The outcomes of the runs with two threads.
ConcOutcomes == {"200", "Timeout"}

\* int(ratelimit_reset) - int(time.time()): the X-Ratelimit-Reset header of a
\* 429 response, relative to the clock as the handler reads it.
ResetDeltas == {-1, 2}


VARIABLES
  retries,          \* self.retries of the TradeClient, when defined
  retries_defined,  \* whether the TradeClient has the attribute retries
  symbol_defined,   \* whether the TradeClient has the attribute symbol
  stack,            \* per thread: the dispatcher frames of its logical call
  result,           \* per thread: how its last logical call ended
  call,             \* per thread: bookkeeping of its current / last call
  ackMsg,           \* the acknowledgement handed to readOrderStatus, or None
  orderStatus       \* what readOrderStatus returned for it, or None

vars ==
  <<retries, retries_defined, symbol_defined, stack, result, call,
    ackMsg, orderStatus>>

\* --------------------------------------------------------------- postdicts
\* A postdict is described by what the dispatcher reads of it: whether it is
\* None, whether it has the keys 'orders' (n orders, each with or without a
\* clOrdID), 'orderID', and 'orderQty' / 'price' / 'symbol' (top = TRUE).
\* orderQty, price and symbol are those of the order, or of each order of
\* 'orders'; top says whether they are keys of the postdict itself, priced
\* whether 'price' is; orderType is the 'orderType' of an order.
Postdict(kind, n, c, top, qty) ==
  [kind |-> kind, n |-> n, clOrdID |-> c, top |-> top,
   orderQty |-> qty, price |-> 10, symbol |-> "XBTUSD",
   priced |-> top, orderType |-> "Limit"]
NoPostdict == Postdict("None", 0, FALSE, FALSE, 0)
\* a dict without 'orders' and without 'orderID'
OtherPostdict == Postdict("Other", 0, FALSE, FALSE, 0)
\* {'orderID': ...}
CancelPostdict == Postdict("Cancel", 0, FALSE, FALSE, 0)
\* {'price':, 'symbol':, 'orderQty':, 'orderType':}
OrderPostdict(qty) == Postdict("Order", 0, FALSE, TRUE, qty)
\* {'orders': [n orders]}
BulkPostdict(n, c) == Postdict("Bulk", n, c, FALSE, 1)
\* {'orders': [n orders with clOrdID], 'orderQty':, 'price':, 'symbol':}
BulkTopPostdict(n, qty) == Postdict("Bulk", n, TRUE, TRUE, qty)

\* An order of a response body: the fields the reconciliation reads.
Orders ==
  [orderQty : {1, 2}, side : {"Buy", "Sell"}, price : {10, 11},
   symbol : {"XBTUSD", "ETHUSD"}]

\* A parsed JSON body: a list of orders.
Bodies == UNION {[1..n -> Orders] : n \in 0..MaxOrders}
\* A body of one order, the one place_order(1) submits.
OneOrder == <<[orderQty |-> 1, side |-> "Buy", price |-> 10, symbol |-> "XBTUSD"]>>

\* ResolveMaxRetries with PUT left out of the verbs that are not retried.
ResolveMaxRetries_PutRetried(verb, override, max_retries) ==
  IF override THEN max_retries
  ELSE IF verb = "POST" THEN NoRetries ELSE DefaultRetries

\* if max_retries is None: max_retries = 0 if verb in ['POST', 'PUT'] else 3
ResolveMaxRetries(verb, override, max_retries) ==
  IF override THEN max_retries
  ELSE IF verb \in {"POST", "PUT"} THEN NoRetries ELSE DefaultRetries

\* ------------------------------------------------------------------ inputs
\* A Python value that may be None: None is <<>>, the value x is <<x>>.
None == <<>>
Some(x) == <<x>>

\* The arguments of a dispatcher call, and args: the arguments the caller
\* gave to buy, sell or place_order, None for the other calls. Every facade
\* method of the authenticated dispatcher passes private=True; the public
\* dispatcher has no such parameter.
Input(facade, fn, verb, rethrow, override, maxr, postdict) ==
  [facade |-> facade, fn |-> fn, verb |-> verb, rethrow_errors |-> rethrow,
   override |-> override, max_retries |-> maxr, postdict |-> postdict,
   private |-> fn = "private", args |-> None]

position == Input("position", "private", "GET", FALSE, FALSE, 0, NoPostdict)
isolate_margin(rethrow) ==
  Input("isolate_margin", "private", "POST", rethrow, FALSE, 0, OtherPostdict)
place_order(qty) ==
  Input("place_order", "private", "POST", FALSE, FALSE, 0, OrderPostdict(qty))
amend_bulk_orders(n, c) ==
  Input("amend_bulk_orders", "private", "PUT", TRUE, FALSE, 0, BulkPostdict(n, c))
create_bulk_orders(n, c) ==
  Input("create_bulk_orders", "private", "POST", FALSE, FALSE, 0, BulkPostdict(n, c))
active_orders == Input("active_orders", "private", "GET", FALSE, FALSE, 0, NoPostdict)
cancel == Input("cancel", "private", "DELETE", FALSE, FALSE, 0, CancelPostdict)
withdraw == Input("withdraw", "private", "POST", FALSE, TRUE, 0, OtherPostdict)
symbols == Input("symbols", "public", "GET", FALSE, FALSE, 0, NoPostdict)

\* The dispatchers called with arguments no facade method passes.
DirectInputs ==
  {Input("direct", "private", "GET", TRUE, TRUE, MaxOverride, NoPostdict),
   Input("direct", "private", "POST", FALSE, TRUE, MaxOverride, NoPostdict)}
  \cup {Input("direct", "private", "POST", FALSE, FALSE, 0, BulkTopPostdict(n, q)) :
     n \in 1..MaxOrders, q \in {-1, 1}}
  \cup {Input("direct", "public", "GET", TRUE, FALSE, 0, NoPostdict)}
  \cup {Input("direct", "private", "DELETE", TRUE, FALSE, 0, CancelPostdict)}
  \cup {[Input("direct", "private", "GET", TRUE, FALSE, 0, NoPostdict)
          EXCEPT !.private = FALSE]}

FacadeInputs ==
  {position, place_order(1), active_orders, cancel, withdraw, symbols}
  \cup {isolate_margin(r) : r \in BOOLEAN}
  \cup {amend_bulk_orders(n, TRUE) : n \in 1..MaxOrders}
  \cup {create_bulk_orders(n, c) : n \in 1..MaxOrders, c \in BOOLEAN}
  \cup {create_bulk_orders(0, FALSE)}

CallInputs == FacadeInputs \cup DirectInputs

\* The calls of the runs with two threads.
ConcInputs == {position, place_order(1)}

\* ---------------------------------------------------------- authentication
\* acc.apiKey and acc.apiSecret, which TradeClient.__init__ stores.
apiKey == "key"
apiSecret == "secret"

\* What time.time() rounds to when an auth object reads it: a reading of the
\* system clock, which the environment gives at each dispatch.
ClockReadings == 0..MaxClock

\* The path argument of each call; a direct call is given 'order'.
Path(facade) ==
  CASE facade = "position" -> "position"
    [] facade = "isolate_margin" -> "position/leverage"
    [] facade \in {"amend_bulk_orders", "create_bulk_orders"} -> "order/bulk"
    [] facade = "withdraw" -> "user/requestWithdrawal"
    [] facade = "symbols" -> "instrument/active"
    [] facade = "refetch" -> "/order"
    [] OTHER -> "order"

\* The query argument of each call, as the prepared url carries it: the
\* filter and count of active_orders, the filter of the re-fetch, and no
\* query otherwise.
Query(facade) ==
  CASE facade = "active_orders" -> "filter=open&count=500"
    [] facade = "refetch" -> "filter=IDs"
    [] OTHER -> ""

\* url = self.client.base_url + path with params=query, in the parts that
\* urlparse gives.
Url(r) ==
  [scheme |-> "https", netloc |-> "www.bitmex.com",
   path |-> "/api/v1/" \o r.path, query |-> r.query]

\* json.dumps of the orders of a postdict.
RECURSIVE DumpOrders(_, _)
DumpOrders(n, pd) ==
  IF n = 0 THEN ""
  ELSE (IF n > 1 THEN DumpOrders(n - 1, pd) \o "," ELSE "")
       \o (IF pd.clOrdID THEN "{\"clOrdID\":" \o ToString(n) \o "}" ELSE "{}")

\* The keys 'price', 'symbol', 'orderQty' and 'orderType' of a postdict.
DumpTop(pd) ==
  (IF pd.priced THEN "\"price\":" \o ToString(pd.price) \o "," ELSE "")
  \o "\"symbol\":\"" \o pd.symbol \o "\",\"orderQty\":" \o ToString(pd.orderQty)
  \o ",\"orderType\":\"" \o pd.orderType \o "\""

\* r.body or '': the JSON text of the postdict (json=postdict), '' when the
\* postdict is None.
Body(pd) ==
  CASE pd.kind = "None" -> ""
    [] pd.kind = "Cancel" -> "{\"orderID\":1}"
    [] pd.kind = "Order" -> "{" \o DumpTop(pd) \o "}"
    [] pd.kind = "Bulk" ->
         "{\"orders\":[" \o DumpOrders(pd.n, pd) \o "]"
         \o (IF pd.top THEN "," \o DumpTop(pd) ELSE "") \o "}"
    [] OTHER -> "{\"other\":1}"

\* hmac.new(key, msg, digestmod=hashlib.sha256).hexdigest(): the digest is
\* named by the key and the message it is the digest of.
HMAC_SHA256(key, msg) == <<"hmac_sha256", key, msg>>

\* generate_signature whose message also carries the attempt counter.
generate_signature_ReadsCounter(secret, verb, url, nonce, data) ==
  LET path == IF url.query # "" THEN url.path \o "?" \o url.query ELSE url.path
      message == verb \o path \o ToString(nonce) \o data \o ToString(retries)
  IN HMAC_SHA256(secret, message)

\* path = parsedURL.path (+ '?' + parsedURL.query);
\* message = verb + path + str(nonce) + data; the hex digest of the message
generate_signature(secret, verb, url, nonce, data) ==
  LET path == IF url.query # "" THEN url.path \o "?" \o url.query ELSE url.path
      message == verb \o path \o ToString(nonce) \o data
  IN HMAC_SHA256(secret, message)

\* int(round(time.time() * 10000))
generate_nonce(clock) == clock * NonceScale

\* A request without authentication headers.
NoHeaders == <<>>

\* APIKeyAuth.__call__: api-nonce, api-key and api-signature over the nonce.
APIKeyAuth(key, secret, r, clock) ==
  LET nonce == generate_nonce(clock)
  IN ("api-nonce" :> ToString(nonce)) @@ ("api-key" :> key)
     @@ ("api-signature" :>
           generate_signature(secret, r.verb, Url(r), nonce, Body(r.postdict)))

\* The request signed by the nonce strategy where the expiry strategy is due.
APIKeyAuthWithExpires_Nonce(key, secret, r, clock) ==
  APIKeyAuth(key, secret, r, clock)

\* expires = int(round(time.time()) + 5)
Expires(clock) == clock + GracePeriod

\* APIKeyAuthWithExpires.__call__: api-expires, api-key and api-signature
\* over the expiry.
APIKeyAuthWithExpires(key, secret, r, clock) ==
  LET expires == Expires(clock)
  IN ("api-expires" :> ToString(expires)) @@ ("api-key" :> key)
     @@ ("api-signature" :>
           generate_signature(secret, r.verb, Url(r), expires, Body(r.postdict)))

\* Prepare that keeps the headers a request was given at an earlier dispatch.
Prepare_Reused(r, clock) ==
  IF DOMAIN r.headers # {} THEN r.headers
  ELSE IF r.fn = "private" /\ r.private
  THEN APIKeyAuthWithExpires(apiKey, apiSecret, r, clock)
  ELSE NoHeaders

\* session.prepare_request(req): the authenticated dispatcher gives the
\* request auth=APIKeyAuthWithExpires(...) if private; without private, and in
\* the public dispatcher, the request has no auth.
Prepare(r, clock) ==
  IF r.fn = "private" /\ r.private
  THEN APIKeyAuthWithExpires(apiKey, apiSecret, r, clock)
  ELSE NoHeaders

\* The clock readings a dispatch of the request can meet; a request without
\* auth does not read the clock.
Readings(r) == IF r.fn = "private" /\ r.private THEN ClockReadings ELSE {0}

\* ------------------------------------------------------------------ frames
\* headers are those of the frame's last dispatch and clock is the reading
\* they were computed at.
NewFrame(in, role) ==
  [fn |-> in.fn, verb |-> in.verb, rethrow_errors |-> in.rethrow_errors,
   max_retries |-> ResolveMaxRetries(in.verb, in.override, in.max_retries),
   postdict |-> in.postdict, role |-> role, pc |-> "send",
   private |-> in.private, path |-> Path(in.facade), query |-> Query(in.facade),
   headers |-> NoHeaders, clock |-> 0,
   response |-> "none", body |-> <<>>, to_sleep |-> 0, tmp |-> 0,
   ratelimit_reset |-> 0, canceled |-> FALSE, slept |-> -1,
   orderResults |-> <<>>]

Depth(t) == Len(stack[t])
Top(t) == stack[t][Depth(t)]
Running(t) == Depth(t) > 0
At(t, pc) == Running(t) /\ Top(t).pc = pc

SetTop(t, f) == [stack EXCEPT ![t] = [@ EXCEPT ![Len(@)] = f]]
Push(t, f) == [stack EXCEPT ![t] = Append(@, f)]

NoResult == [status |-> "none", exc |-> "", value |-> <<>>]
Returned(v) == [status |-> "returned", exc |-> "", value |-> v]
ReturnedNone == [status |-> "returned_none", exc |-> "", value |-> <<>>]
Raised(e) == [status |-> "raised", exc |-> e, value |-> <<>>]
Exited == [status |-> "exit", exc |-> "SystemExit", value |-> <<>>]

\* What the outcomes a call's own request has met so far have been.
SeenAfter(seen, o) ==
  LET class == CASE o \in {"503", "Timeout"} -> "transient"
                 [] o = "429" -> "ratelimit"
                 [] o = "ConnectionError" -> "mixed"
                 [] OTHER -> "final"
  IN CASE seen = "none" -> class
       [] class = "final" -> seen
       [] seen = class -> seen
       [] OTHER -> "mixed"

\* Bookkeeping of a logical call: its arguments, the dispatches of its own
\* request, the 429s met, the retryable outcomes its own request met, the
\* last outcome of its own request and the body of its last 200, whether a
\* nested request and whether a cancel request was dispatched, the orders a
\* re-fetch handed to the
\* reconciliation, whether the attempt counter was zero when the call started
\* and whether the call before it ended in the max-retries error.
StartCall(in, fresh, after_max) ==
  [input |-> in, dispatches |-> 0, n429 |-> 0, seen |-> "none",
   last |-> "none", body |-> <<>>, nested |-> FALSE, canceled |-> FALSE,
   compared |-> FALSE,
   fetched |-> <<>>, fresh |-> fresh, after_max |-> after_max]

NoCall == StartCall(position, FALSE, FALSE)

\* A TradeClient as constructed: TradeClient.__init__ sets apiKey, apiSecret
\* and client and does not run Client.__init__, so the object has no retries
\* (until a success assigns it) and no symbol; symbol is there when the
\* application assigned one to the object.
InitClient ==
  /\ retries = 0
  /\ retries_defined = FALSE
  /\ symbol_defined \in BOOLEAN
  /\ stack = [t \in Threads |-> <<>>]
  /\ result = [t \in Threads |-> NoResult]
  /\ call = [t \in Threads |-> NoCall]

\* The client as constructed; no acknowledgement is being read.
Init ==
  /\ InitClient
  /\ ackMsg = None
  /\ orderStatus = None

\* ------------------------------------------------------- leaving a frame
\* An exception no frame catches: the nested calls are made inside the
\* except-clause of their caller, so it unwinds the whole logical call.
Raise(t, e) ==
  /\ stack' = [stack EXCEPT ![t] = <<>>]
  /\ result' = [result EXCEPT ![t] = Raised(e)]

\* exit(1): SystemExit unwinds the logical call and ends its thread.
Exit(t) ==
  /\ stack' = [stack EXCEPT ![t] = <<>>]
  /\ result' = [result EXCEPT ![t] = Exited]

\* def exit_or_throw(e)
exit_or_throw(t, e) ==
  IF Top(t).rethrow_errors THEN Raise(t, e) ELSE Exit(t)

\* Where the caller of a nested call goes on when that call returns.
Continue(pc) ==
  CASE pc = "await_active_orders" -> "call_cancel"
    [] pc = "await_cancel" -> "sleep429"
    [] pc = "await_refetch" -> "compare"
    [] OTHER -> pc

\* return v (none = TRUE: a bare return) from the top frame of t
Return(t, v, none) ==
  IF Depth(t) = 1
  THEN /\ stack' = [stack EXCEPT ![t] = <<>>]
       /\ result' = [result EXCEPT ![t] = IF none THEN ReturnedNone ELSE Returned(v)]
  ELSE LET parent == stack[t][Depth(t) - 1]
           resumed == [parent EXCEPT !.pc = Continue(parent.pc),
                                     !.orderResults =
                                        IF parent.pc = "await_refetch" THEN v ELSE @]
       IN /\ stack' = [stack EXCEPT ![t] =
                         Append(SubSeq(@, 1, Len(@) - 2), resumed)]
          /\ UNCHANGED result

\* ------------------------------------------------------------- operations
\* A facade method, or a caller of the dispatcher, starts a logical call.
Call(t, in) ==
  /\ ~Running(t)
  /\ result[t].status # "exit"
  /\ call' = [call EXCEPT ![t] =
       StartCall(in, retries_defined /\ retries = 0,
                 result[t] = Raised("MaxRetries"))]
  /\ IF /\ ~symbol_defined
        /\ \/ in.facade = "active_orders"
           \/ in.facade = "create_bulk_orders" /\ in.postdict.n > 0
     THEN \* self.symbol of a TradeClient without the attribute
          /\ result' = [result EXCEPT ![t] = Raised("AttributeError")]
          /\ UNCHANGED stack
     ELSE /\ stack' = Push(t, NewFrame(in, "top"))
          /\ result' = [result EXCEPT ![t] = NoResult]
  /\ UNCHANGED <<retries, retries_defined, symbol_defined, ackMsg, orderStatus>>

\* session.prepare_request(req), session.send(prepped) and
\* raise_for_status(): the request of the top frame is prepared at a reading
\* of the clock and dispatched and meets outcome o (body b on a 200, X-Ratelimit-Reset d
\* seconds ahead of the clock on a 429).
Send(t, o, b, d) ==
  /\ At(t, "send")
  /\ o = "429" => call[t].n429 < Max429
  /\ Depth(t) = 1 => call[t].dispatches < MaxDispatch
  /\ \E clock \in Readings(Top(t)) :
       LET f == [Top(t) EXCEPT !.pc = "handle", !.response = o, !.body = b,
                               !.ratelimit_reset = IF o = "429" THEN d ELSE 0,
                               !.to_sleep = 0, !.canceled = FALSE, !.slept = -1,
                               !.orderResults = <<>>,
                               !.headers = Prepare(Top(t), clock),
                               !.clock = clock]
           s1 == SetTop(t, f)
       IN stack' = IF f.role = "cancel"
                   THEN [s1 EXCEPT ![t][Depth(t) - 1].canceled = TRUE]
                   ELSE s1
  /\ call' = [call EXCEPT ![t].n429 = IF o = "429" THEN @ + 1 ELSE @,
                          ![t].dispatches = IF Depth(t) = 1 THEN @ + 1 ELSE @,
                          ![t].seen = IF Depth(t) = 1 THEN SeenAfter(@, o) ELSE @,
                          ![t].last = IF Depth(t) = 1 THEN o ELSE @,
                          ![t].body = IF Depth(t) = 1 THEN b ELSE @,
                          ![t].nested = @ \/ Depth(t) > 1,
                          ![t].canceled = @ \/ Top(t).role = "cancel"]
  /\ UNCHANGED <<retries, retries_defined, symbol_defined, ackMsg, orderStatus, result>>

\* The bodies a 200 can carry: any list of orders in answer to the re-fetch,
\* one of two bodies otherwise.
BodiesFor(role) == IF role = "refetch" THEN Bodies ELSE {<<>>, OneOrder}

Dispatch(t) ==
  /\ Running(t)
  /\ \/ \E b \in BodiesFor(Top(t).role) : Send(t, "200", b, 0)
     \/ \E d \in ResetDeltas : Send(t, "429", <<>>, d)
     \/ \E o \in Outcomes \ {"200", "429"} : Send(t, o, <<>>, 0)

Handling(t, fn, o) ==
  At(t, "handle") /\ Top(t).fn = fn /\ Top(t).response = o

\* Handle200 without the reset of the counter.
Handle200_NoReset(t) ==
  /\ At(t, "handle") /\ Top(t).response = "200"
  /\ Return(t, Top(t).body, FALSE)
  /\ UNCHANGED <<retries, retries_defined, symbol_defined, ackMsg, orderStatus, call>>

\* Reset retry counter on success; return response.json()
Handle200(t) ==
  /\ At(t, "handle") /\ Top(t).response = "200"
  /\ retries' = 0
  /\ retries_defined' = TRUE
  /\ Return(t, Top(t).body, FALSE)
  /\ UNCHANGED <<symbol_defined, ackMsg, orderStatus, call>>

\* 401 in the authenticated dispatcher: always exit
Handle401(t) ==
  /\ Handling(t, "private", "401")
  /\ Exit(t)
  /\ UNCHANGED <<retries, retries_defined, symbol_defined, ackMsg, orderStatus, call>>

\* Handle404 without the branch of DELETE.
Handle404_DeleteRethrows(t) ==
  /\ Handling(t, "private", "404")
  /\ exit_or_throw(t, "HTTPError")
  /\ UNCHANGED <<retries, retries_defined, symbol_defined, ackMsg, orderStatus, call>>

\* 404 in the authenticated dispatcher
Handle404(t) ==
  /\ Handling(t, "private", "404")
  /\ IF Top(t).verb = "DELETE"
     THEN \* logs postdict['orderID'], then a bare return
          CASE Top(t).postdict.kind = "Cancel" -> Return(t, <<>>, TRUE)
            [] Top(t).postdict.kind = "None" -> Raise(t, "TypeError")
            [] OTHER -> Raise(t, "KeyError")
     ELSE exit_or_throw(t, "HTTPError")
  /\ UNCHANGED <<retries, retries_defined, symbol_defined, ackMsg, orderStatus, call>>

\* time.sleep(secs) of the top frame, then retry()
SleepThenRetry(t, secs) ==
  stack' = SetTop(t, [Top(t) EXCEPT !.pc = "retry_load", !.slept = secs])

\* Handle503 with the sleep of the connection error.
Handle503_ShortSleep(t) ==
  /\ At(t, "handle") /\ Top(t).response = "503"
  /\ SleepThenRetry(t, SleepConn)
  /\ UNCHANGED <<retries, retries_defined, symbol_defined, ackMsg, orderStatus, result, call>>

\* 503 in either dispatcher: time.sleep(3); return retry()
Handle503(t) ==
  /\ At(t, "handle") /\ Top(t).response = "503"
  /\ SleepThenRetry(t, Sleep503)
  /\ UNCHANGED <<retries, retries_defined, symbol_defined, ackMsg, orderStatus, result, call>>

\* except requests.exceptions.Timeout: return retry()
HandleTimeout(t) ==
  /\ At(t, "handle") /\ Top(t).response = "Timeout"
  /\ stack' = SetTop(t, [Top(t) EXCEPT !.pc = "retry_load", !.slept = 0])
  /\ UNCHANGED <<retries, retries_defined, symbol_defined, ackMsg, orderStatus, result, call>>

\* except requests.exceptions.ConnectionError: time.sleep(1); return retry()
HandleConnectionError(t) ==
  /\ At(t, "handle") /\ Top(t).response = "ConnectionError"
  /\ SleepThenRetry(t, SleepConn)
  /\ UNCHANGED <<retries, retries_defined, symbol_defined, ackMsg, orderStatus, result, call>>

\* retry(): self.retries += 1 reads the attribute ...
RetryLoad(t) ==
  /\ At(t, "retry_load")
  /\ IF retries_defined
     THEN /\ stack' = SetTop(t, [Top(t) EXCEPT !.pc = "retry_store", !.tmp = retries])
          /\ UNCHANGED result
     ELSE Raise(t, "AttributeError")
  /\ UNCHANGED <<retries, retries_defined, symbol_defined, ackMsg, orderStatus, call>>

\* ... and stores the sum
RetryStore(t) ==
  /\ At(t, "retry_store")
  /\ Top(t).tmp < MaxCounter
  /\ retries' = Top(t).tmp + 1
  /\ stack' = SetTop(t, [Top(t) EXCEPT !.pc = "retry_check", !.tmp = 0])
  /\ UNCHANGED <<retries_defined, symbol_defined, ackMsg, orderStatus, result, call>>

\* MaxRetriesHit with >= for >.
MaxRetriesHit_AtLeast(n, max_retries) == n >= max_retries

\* if self.retries > max_retries: raise Exception("Max retries ...")
MaxRetriesHit(n, max_retries) == n > max_retries

\* retry(): the check, then the dispatcher is entered again
RetryCheck(t) ==
  /\ At(t, "retry_check")
  /\ IF MaxRetriesHit(retries, Top(t).max_retries)
     THEN Raise(t, "MaxRetries")
     ELSE /\ stack' = SetTop(t, [Top(t) EXCEPT !.pc = "send"])
          /\ UNCHANGED result
  /\ UNCHANGED <<retries, retries_defined, symbol_defined, ackMsg, orderStatus, call>>

\* The top frame of t, now `parent`, calls a dispatcher: frame f goes on top.
Nested(t, parent, f) ==
  [stack EXCEPT ![t] = Append([@ EXCEPT ![Len(@)] = parent], f)]

\* 429 in the authenticated dispatcher: to_sleep is computed, then
\* self.cancel([o['orderID'] for o in self.active_orders()]) is evaluated:
\* active_orders reads self.symbol and makes its own GET.
Handle429(t) ==
  /\ Handling(t, "private", "429")
  /\ IF symbol_defined
     THEN /\ Depth(t) < MaxDepth
          /\ stack' = Nested(t, [Top(t) EXCEPT !.pc = "await_active_orders",
                                   !.to_sleep = Top(t).ratelimit_reset],
                             NewFrame(active_orders, "active_orders"))
          /\ UNCHANGED result
     ELSE Raise(t, "AttributeError")
  /\ UNCHANGED <<retries, retries_defined, symbol_defined, ackMsg, orderStatus, call>>

\* active_orders returned: self.cancel(orderIDs) makes its DELETE
CancelAll(t) ==
  /\ At(t, "call_cancel")
  /\ Depth(t) < MaxDepth
  /\ stack' = Nested(t, [Top(t) EXCEPT !.pc = "await_cancel"],
                     NewFrame(cancel, "cancel"))
  /\ UNCHANGED <<retries, retries_defined, symbol_defined, ackMsg, orderStatus, result, call>>

\* time.sleep(to_sleep) raises ValueError on a negative length
SleepOrRaise(t, secs) ==
  IF secs < 0
  THEN Raise(t, "ValueError")
  ELSE SleepThenRetry(t, secs) /\ UNCHANGED result

\* cancel returned: time.sleep(to_sleep); return retry()
Sleep429(t) ==
  /\ At(t, "sleep429")
  /\ SleepOrRaise(t, Top(t).to_sleep)
  /\ UNCHANGED <<retries, retries_defined, symbol_defined, ackMsg, orderStatus, call>>

\* 429 in the public dispatcher: time.sleep(to_sleep); return retry()
Handle429Public(t) ==
  /\ Handling(t, "public", "429")
  /\ SleepOrRaise(t, Top(t).ratelimit_reset)
  /\ UNCHANGED <<retries, retries_defined, symbol_defined, ackMsg, orderStatus, call>>

\* self._curl_bitmex('/order', query={'filter': IDs}, verb='GET')
refetch == Input("refetch", "public", "GET", FALSE, FALSE, 0, NoPostdict)

\* 400 'duplicate clordid' in the authenticated dispatcher, up to the re-fetch:
\* orders = postdict['orders'] if 'orders' in postdict else postdict, then
\* [order['clOrdID'] for order in orders]
Handle400Duplicate(t) ==
  /\ Handling(t, "private", "400dup")
  /\ LET pd == Top(t).postdict
     IN IF pd.kind # "Bulk"
        THEN \* 'orders' in None, or order['clOrdID'] with order a key of the dict
             Raise(t, "TypeError")
        ELSE IF pd.n > 0 /\ ~pd.clOrdID
        THEN Raise(t, "KeyError")
        ELSE /\ Depth(t) < MaxDepth
             /\ stack' = Nested(t, [Top(t) EXCEPT !.pc = "await_refetch"],
                                NewFrame(refetch, "refetch"))
             /\ UNCHANGED result
  /\ UNCHANGED <<retries, retries_defined, symbol_defined, ackMsg, orderStatus, call>>

Abs(x) == IF x < 0 THEN -x ELSE x

\* The condition of the reconciliation loop, for one returned order.
Mismatch(order, postdict) ==
  \/ order.orderQty # Abs(postdict.orderQty)
  \/ order.side # (IF postdict.orderQty > 0 THEN "Buy" ELSE "Sell")
  \/ order.price # postdict.price
  \/ order.symbol # postdict.symbol

\* The reconciliation loop over orderResults: what it ends in.
Reconcile(orderResults, postdict) ==
  IF orderResults = <<>> THEN "return"
  ELSE IF ~postdict.top THEN "KeyError"     \* postdict['orderQty']
  ELSE LET bad == {i \in 1..Len(orderResults) : Mismatch(orderResults[i], postdict)}
       IN IF bad = {} THEN "return"
          ELSE LET i == CHOOSE j \in bad : \A k \in bad : j <= k
               IN IF i > postdict.n THEN "IndexError"   \* orders[i] of the message
                  ELSE "Reconciliation"

\* the re-fetch returned: for i, order in enumerate(orderResults) ...
Compare(t) ==
  /\ At(t, "compare")
  /\ LET end == Reconcile(Top(t).orderResults, Top(t).postdict)
     IN IF end = "return"
        THEN Return(t, Top(t).orderResults, FALSE)
        ELSE Raise(t, end)
  /\ call' = [call EXCEPT ![t].compared = TRUE,
                          ![t].fetched = Top(t).orderResults]
  /\ UNCHANGED <<retries, retries_defined, symbol_defined, ackMsg, orderStatus>>

\* 400 'insufficient available balance': self.logger of a TradeClient, which
\* has no such attribute (TradeClient.__init__ sets apiKey, apiSecret, client)
Handle400Insufficient(t) ==
  /\ Handling(t, "private", "400insuf")
  /\ Raise(t, "AttributeError")
  /\ UNCHANGED <<retries, retries_defined, symbol_defined, ackMsg, orderStatus, call>>

\* 400 in the authenticated dispatcher: error = response.json()['error'] of a
\* body that is not JSON (ValueError) or has no 'error' member (KeyError); the
\* exception leaves the except-clause it is raised in.
Handle400NoJson(t) ==
  /\ Handling(t, "private", "400nojson")
  /\ \E e \in {"ValueError", "KeyError"} : Raise(t, e)
  /\ UNCHANGED <<retries, retries_defined, symbol_defined, ackMsg, orderStatus, call>>

\* The statuses no branch of a dispatcher's HTTPError handler returns from.
Unhandled(fn) ==
  IF fn = "private" THEN {"400other", "500"}
  ELSE {"400dup", "400insuf", "400other", "400nojson", "401", "404", "500"}

\* "Unhandled Error": exit_or_throw(e)
HandleUnhandled(t) ==
  /\ At(t, "handle") /\ Top(t).response \in Unhandled(Top(t).fn)
  /\ exit_or_throw(t, "HTTPError")
  /\ UNCHANGED <<retries, retries_defined, symbol_defined, ackMsg, orderStatus, call>>

\* ------------------------------------------------------------ order facade
\* The arguments of buy, sell and place_order: symbol, quantity, ordertpye and
\* price (None when the caller leaves it out).
OrderArgs ==
  [symbol : {"XBTUSD"}, quantity : 1..MaxQty, ordertpye : {"Market", "Limit"},
   price : {None, Some(-1), Some(0), Some(10)}]

\* place_order's postdict: {'price': price} unless ordertpye is 'Market', then
\* 'symbol', 'orderQty' and 'orderType'.
PlacePostdict(symbol, quantity, ordertpye, price) ==
  [OrderPostdict(quantity) EXCEPT
     !.symbol = symbol, !.orderType = ordertpye,
     !.priced = ordertpye # "Market",
     !.price = IF ordertpye # "Market" THEN price[1] ELSE 0]

\* What `if price < 0: raise Exception("Price must be positive.")` ends in for
\* an order that is not a Market order: comparing None with 0 raises TypeError
\* under Python 3 and is true under Python 2.
PriceCheck(price) ==
  IF price = None THEN {"TypeError", "PriceError"}
  ELSE IF price[1] < 0 THEN {"PriceError"}
  ELSE {"ok"}

\* place_order(symbol, quantity, ordertpye, price=None, stopPx=None), entered
\* from `facade` whose caller gave the arguments a.
place_order_from(t, facade, a, symbol, quantity, ordertpye, price) ==
  /\ \E end \in (IF ordertpye # "Market" THEN PriceCheck(price) ELSE {"ok"}) :
       LET pd == IF end = "ok"
                 THEN PlacePostdict(symbol, quantity, ordertpye, price)
                 ELSE NoPostdict
           in == [Input(facade, "private", "POST", FALSE, FALSE, 0, pd)
                    EXCEPT !.args = Some(a)]
       IN /\ call' = [call EXCEPT ![t] =
                        StartCall(in, retries_defined /\ retries = 0,
                                  result[t] = Raised("MaxRetries"))]
          /\ IF end = "ok"
             THEN /\ stack' = Push(t, NewFrame(in, "top"))
                  /\ result' = [result EXCEPT ![t] = NoResult]
             ELSE /\ result' = [result EXCEPT ![t] = Raised(end)]
                  /\ UNCHANGED stack
  /\ UNCHANGED <<retries, retries_defined, symbol_defined, ackMsg, orderStatus>>

\* A thread that is not in a call, and that exit(1) has not ended.
Idle(t) == ~Running(t) /\ result[t].status # "exit"

\* def place_order(self, symbol, quantity, ordertpye, price=None, stopPx=None)
PlaceOrder(t, a) ==
  /\ Idle(t)
  /\ place_order_from(t, "place_order", a, a.symbol, a.quantity, a.ordertpye, a.price)

\* buy: return self.place_order(symbol, quantity, ordertpye, price=None, stopPx=None)
Buy(t, a) ==
  /\ Idle(t)
  /\ place_order_from(t, "buy", a, a.symbol, a.quantity, a.ordertpye, None)

\* Sell without the negation of the quantity.
Sell_NotNegated(t, a) ==
  /\ Idle(t)
  /\ place_order_from(t, "sell", a, a.symbol, a.quantity, a.ordertpye, None)

\* sell: quantity = - quantity; return self.place_order(symbol, quantity,
\* ordertpye, price=None, stopPx=None)
Sell(t, a) ==
  /\ Idle(t)
  /\ place_order_from(t, "sell", a, a.symbol, -a.quantity, a.ordertpye, None)

\* The outcomes of the runs of the order facade.
OrderOutcomes == {"200", "400other"}

DispatchOrder(t) ==
  /\ Running(t)
  /\ \/ \E b \in BodiesFor(Top(t).role) : Send(t, "200", b, 0)
     \/ \E o \in OrderOutcomes \ {"200"} : Send(t, o, <<>>, 0)

\* ------------------------------------------------------------ order status
\* A number of an acknowledgement: a JSON number or a numeric string, of
\* value v.
JsonNumbers(values) == [json : {"number", "string"}, v : values]

\* float(x)
Float(x) == x.v

\* The acknowledgements (dicts) readOrderStatus is given: what it reads of them.
AckMsgs ==
  [ordStatus : {"New", "Filled", "Canceled", "PartiallyFilled", "Rejected"},
   workingIndicator : BOOLEAN,
   price : JsonNumbers({10, 11}),
   cumQty : JsonNumbers(1..MaxQty),
   leavesQty : JsonNumbers({0})]

\* readOrderStatus with tradedQty and remainQty taken from each other's field.
readOrderStatus_SwappedQty(m) ==
  IF m.ordStatus = "Filled"
  THEN <<"FILLED", Some(Float(m.price)), Some(Float(m.leavesQty)),
         Some(Float(m.cumQty))>>
  ELSE IF m.ordStatus = "Canceled" THEN <<"CXLED", None, None, None>>
  ELSE IF m.ordStatus = "New" THEN <<"ACTIVE", None, None, None>>
  ELSE <<"UNKNOWN", None, None, None>>

\* def readOrderStatus(self, ackMsg), for a dict.  The conditional expression
\* binds looser than `and`: True if c else (False and ...).
readOrderStatus(m) ==
  LET isTraded ==
        IF m.ordStatus = "Filled" THEN TRUE ELSE (FALSE /\ ~m.workingIndicator)
      isCancelled == IF m.ordStatus = "Canceled" THEN TRUE ELSE FALSE
      isActive ==
        IF m.ordStatus = "New" THEN TRUE ELSE (FALSE /\ m.workingIndicator)
  IN IF isTraded
     THEN <<"FILLED", Some(Float(m.price)), Some(Float(m.cumQty)),
            Some(Float(m.leavesQty))>>
     ELSE IF isCancelled THEN <<"CXLED", None, None, None>>
     ELSE IF isActive THEN <<"ACTIVE", None, None, None>>
     ELSE <<"UNKNOWN", None, None, None>>

\* readOrderStatus is applied to the acknowledgement.
ReadOrderStatus ==
  /\ ackMsg # None
  /\ orderStatus = None
  /\ orderStatus' = Some(readOrderStatus(ackMsg[1]))
  /\ UNCHANGED <<retries, retries_defined, symbol_defined, stack, result, call,
                 ackMsg>>

\* ---------------------------------------------------------- specifications
\* One thread uses the client.
Next ==
  \/ \E in \in CallInputs : Call(1, in)
  \/ Dispatch(1)
  \/ Handle200(1)
  \/ Handle401(1)
  \/ Handle404(1)
  \/ Handle429(1)
  \/ CancelAll(1)
  \/ Sleep429(1)
  \/ Handle429Public(1)
  \/ Handle503(1)
  \/ Handle400Duplicate(1)
  \/ Compare(1)
  \/ Handle400Insufficient(1)
  \/ Handle400NoJson(1)
  \/ HandleUnhandled(1)
  \/ HandleTimeout(1)
  \/ HandleConnectionError(1)
  \/ RetryLoad(1)
  \/ RetryStore(1)
  \/ RetryCheck(1)

Spec == Init /\ [][Next]_vars

\* Two threads use the client as constructed; their requests succeed or time
\* out.
InitConc == Init /\ ~symbol_defined

DispatchConc(t) ==
  /\ Running(t)
  /\ \/ \E b \in BodiesFor(Top(t).role) : Send(t, "200", b, 0)
     \/ \E o \in ConcOutcomes \ {"200"} : Send(t, o, <<>>, 0)

NextConc ==
  \E t \in Threads :
    \/ \E in \in ConcInputs : Call(t, in)
    \/ DispatchConc(t)
    \/ Handle200(t)
    \/ HandleTimeout(t)
    \/ RetryLoad(t)
    \/ RetryStore(t)
    \/ RetryCheck(t)

SpecConc == InitConc /\ [][NextConc]_vars

\* One thread places orders through buy, sell and place_order.
NextOrder ==
  \/ \E a \in OrderArgs : PlaceOrder(1, a)
  \/ \E a \in OrderArgs : Buy(1, a)
  \/ \E a \in OrderArgs : Sell(1, a)
  \/ DispatchOrder(1)
  \/ Handle200(1)
  \/ HandleUnhandled(1)

SpecOrder == Init /\ [][NextOrder]_vars

\* readOrderStatus is applied to any acknowledgement.
InitStatus ==
  /\ InitClient
  /\ ackMsg \in {Some(m) : m \in AckMsgs}
  /\ orderStatus = None

NextStatus == ReadOrderStatus

SpecStatus == InitStatus /\ [][NextStatus]_vars

\* ------------------------------------------------------------------ claims
Ended(t) == ~Running(t) /\ result[t].status # "none"
Failed(t) == ~Running(t) /\ result[t].status \in {"raised", "exit"}
HitMaxRetries(t) == ~Running(t) /\ result[t] = Raised("MaxRetries")
Retryable == {"503", "Timeout", "ConnectionError", "429"}
Transient == {"503", "Timeout"}
\* The max_retries the dispatcher resolves for a call's arguments.
Budget(in) == ResolveMaxRetries(in.verb, in.override, in.max_retries)
\* POST or PUT without a max_retries override, or withdraw.
NotRetried(in) ==
  \/ in.verb \in {"POST", "PUT"} /\ ~in.override
  \/ in.facade = "withdraw"
\* GET or DELETE without a max_retries override.
RetriedByDefault(in) == in.verb \in {"GET", "DELETE"} /\ ~in.override
\* Every dispatch of the call's own request so far met a 503 or a timeout.
OnlyTransient(t) == call[t].seen = "transient" /\ call[t].last \in Transient
\* Every dispatch of the call's own request so far met a 429.
OnlyRatelimit(t) == call[t].seen = "ratelimit" /\ call[t].last = "429"
\* The call's own request is about to be dispatched.
AboutToSend(t) == Depth(t) = 1 /\ Top(t).pc = "send"

\* C1: a POST or PUT call without a max-retries override, and a withdraw call,
\* dispatches its request exactly once whatever the outcomes and whatever the
\* state earlier calls left: it is never about to be dispatched again, and once
\* its request met a retryable failure the call ends in a failure.
C1_NotRetriedDispatchedOnce ==
  \A t \in Threads :
    NotRetried(call[t].input) =>
      /\ call[t].dispatches <= 1
      /\ AboutToSend(t) => call[t].dispatches = 0
      /\ (Ended(t) /\ call[t].last \in Retryable) => Failed(t)

C1_Witness ==
  \E t \in Threads :
    /\ NotRetried(call[t].input)
    /\ ~call[t].fresh
    /\ call[t].last = "429" /\ call[t].canceled
    /\ HitMaxRetries(t)
    /\ call[t].dispatches = 1

\* C2: a GET or DELETE call without a max-retries override, started with the
\* attempt counter at zero, whose every dispatch meets a 503 or a timeout, makes
\* at most 1 + 3 dispatches, and it ends only in the max-retries error, after
\* the 3rd re-dispatch.
C2_RetriedThreeTimes ==
  \A t \in Threads :
    (RetriedByDefault(call[t].input) /\ call[t].fresh /\ OnlyTransient(t)) =>
      /\ call[t].dispatches <= DefaultRetries + 1
      /\ AboutToSend(t) => call[t].dispatches <= DefaultRetries
      /\ Ended(t) => HitMaxRetries(t) /\ call[t].dispatches = DefaultRetries + 1

C2_Witness ==
  \E t \in Threads :
    /\ RetriedByDefault(call[t].input) /\ call[t].fresh /\ OnlyTransient(t)
    /\ HitMaxRetries(t)
    /\ call[t].dispatches = DefaultRetries + 1

\* C3: a call whose own request meets a 200, after zero or more retryable
\* failures, returns the parsed body of that response, and the attempt counter
\* is zero when it has returned.
C3_SuccessReturnsBodyAndResets ==
  \A t \in Threads :
    (Ended(t) /\ call[t].last = "200") =>
      /\ result[t] = Returned(call[t].body)
      /\ retries_defined /\ retries = 0

C3_Witness ==
  \E t \in Threads :
    /\ Ended(t) /\ call[t].last = "200"
    /\ call[t].seen = "transient" /\ call[t].dispatches = 3
    /\ result[t] = Returned(OneOrder)

\* C4: the retry budget of a call does not depend on earlier calls: a GET or
\* DELETE call without a max-retries override that starts after a call that
\* ended in the max-retries error, and whose every dispatch meets a 503 or a
\* timeout, still ends only after its 3rd re-dispatch.
C4_BudgetPerCall ==
  \A t \in Threads :
    (/\ RetriedByDefault(call[t].input) /\ call[t].after_max
     /\ OnlyTransient(t) /\ Ended(t))
      => call[t].dispatches = DefaultRetries + 1

\* C5: with two calls running at once, a call that started with the counter
\* at zero dispatches its request at most 1 + its own max_retries times, and it
\* ends in the max-retries error only after that many dispatches.
C5_NoInterference ==
  \A t \in Threads :
    call[t].fresh =>
      /\ call[t].dispatches <= Budget(call[t].input) + 1
      /\ HitMaxRetries(t) => call[t].dispatches = Budget(call[t].input) + 1

\* C6: a 401 always ends the process, whatever the rethrow flag, in the
\* authenticated and in the public dispatcher: a call whose own request met a
\* 401 ends in exit(1).
C6_UnauthorizedExits ==
  \A t \in Threads :
    (Ended(t) /\ call[t].last = "401") => result[t] = Exited

\* Some order the re-fetch returned differs from the submitted one.
SomeMismatch(t) ==
  \E i \in 1..Len(call[t].fetched) :
    Mismatch(call[t].fetched[i], call[t].input.postdict)

\* C7: on a 400 duplicate clOrdID, when an order the re-fetch returned differs
\* from the submitted order in quantity, side, price or symbol, the call raises
\* the reconciliation-failure error.
C7_MismatchRaisesReconciliation ==
  \A t \in Threads :
    (Ended(t) /\ call[t].last = "400dup" /\ call[t].compared /\ SomeMismatch(t))
      => result[t] = Raised("Reconciliation")

\* C8: on a 400 duplicate clOrdID answering place_order or create_bulk_orders,
\* when the re-fetch returned orders that all match the submission, the call
\* returns the fetched orders.
C8_MatchReturnsFetched ==
  \A t \in Threads :
    (/\ call[t].input.facade \in {"place_order", "create_bulk_orders"}
     /\ Ended(t) /\ call[t].last = "400dup" /\ call[t].compared
     /\ call[t].fetched # <<>> /\ ~SomeMismatch(t))
      => result[t] = Returned(call[t].fetched)

\* The request of an authenticated frame that met a 429 is dispatched again
\* only after a cancel request was dispatched and the sleep of to_sleep seconds
\* was made.
RedispatchAfterRecovery ==
  \A t \in Threads : \A i \in 1..Depth(t) :
    LET f == stack[t][i]
    IN (f.fn = "private" /\ f.pc = "send" /\ f.response = "429")
         => f.canceled /\ f.slept = f.to_sleep

\* C9: on a 429 the authenticated dispatcher requests the cancellation of the
\* open orders, sleeps until the reset and dispatches the request again, in
\* this order: the request is not dispatched again before that, and a call does
\* not end on a 429 without the open-orders query having been dispatched, nor
\* with the error of a sleep that could not be made.
C9_RateLimitRecovery ==
  /\ RedispatchAfterRecovery
  /\ \A t \in Threads :
       (call[t].input.fn = "private" /\ Ended(t) /\ call[t].last = "429")
         => call[t].nested /\ result[t] # Raised("ValueError")

\* C10: a GET or DELETE call of the authenticated client, started with the
\* counter at zero, whose request meets a 429 on every dispatch is dispatched
\* again at most 3 times.
C10_RateLimitedCallBounded ==
  \A t \in Threads :
    (/\ call[t].input.fn = "private" /\ RetriedByDefault(call[t].input)
     /\ call[t].fresh /\ OnlyRatelimit(t) /\ AboutToSend(t))
      => call[t].dispatches <= DefaultRetries

\* A cancel request: a DELETE whose postdict is {'orderID': ...}.
CancelRequest(in) ==
  in.fn = "private" /\ in.verb = "DELETE" /\ in.postdict.kind = "Cancel"

\* C11: a 404 in answer to a cancel request makes the call return an empty
\* result (a bare return), whatever the rethrow flag: once its request met the
\* 404 the call is in the handler of that 404 or has returned None; it has not
\* raised, has not ended the process and is not on its way to a re-dispatch.
C11_NotFoundOnCancelReturnsEmpty ==
  \A t \in Threads :
    (CancelRequest(call[t].input) /\ call[t].last = "404") =>
      IF Running(t)
      THEN Depth(t) = 1 /\ Top(t).pc = "handle"
      ELSE result[t] = ReturnedNone

C11_Witness ==
  \E t \in Threads :
    /\ CancelRequest(call[t].input) /\ call[t].input.rethrow_errors
    /\ call[t].last = "404" /\ call[t].dispatches = 2
    /\ result[t] = ReturnedNone

\* The statuses the dispatchers do not classify, for a call's arguments: a 400
\* that is neither a duplicate clOrdID nor an insufficient balance, a 500, and
\* a 404 unless the verb is DELETE.
Unclassified(in) ==
  {"400other", "400nojson", "500"}
    \cup (IF in.verb # "DELETE" THEN {"404"} ELSE {})

\* C12: a call whose request met an unclassified status is not retried and
\* honors the rethrow flag: it is in the handler of that response, or it has
\* raised the HTTP error (flag set) or ended the process (flag unset).
C12_UnclassifiedHonorsRethrow ==
  \A t \in Threads :
    call[t].last \in Unclassified(call[t].input) =>
      IF Running(t)
      THEN Depth(t) = 1 /\ Top(t).pc = "handle"
      ELSE result[t] = (IF call[t].input.rethrow_errors
                        THEN Raised("HTTPError") ELSE Exited)

\* C13: a call of the authenticated dispatcher whose request met a 400 with
\* the insufficient-balance message is not retried and honors the rethrow
\* flag: it is in the handler of that response, or it has raised the
\* insufficient-funds error (flag set) or ended the process (flag unset).
C13_InsufficientHonorsRethrow ==
  \A t \in Threads :
    (call[t].input.fn = "private" /\ call[t].last = "400insuf") =>
      IF Running(t)
      THEN Depth(t) = 1 /\ Top(t).pc = "handle"
      ELSE result[t] = (IF call[t].input.rethrow_errors
                        THEN Raised("InsufficientFunds") ELSE Exited)

\* The errors the dispatchers raise themselves: the max-retries error, the
\* reconciliation failure, the HTTP error and the insufficient-funds error
\* handed to exit_or_throw.
DispatcherErrors ==
  {"MaxRetries", "Reconciliation", "HTTPError", "InsufficientFunds"}

\* C14: with the rethrow flag unset no call raises one of the dispatcher's
\* errors to its caller: reconciliation failures and fatal errors, the
\* exhaustion of the retry budget included, end the process instead.
C14_NoRaiseWithoutRethrow ==
  \A t \in Threads :
    ~call[t].input.rethrow_errors =>
      ~(result[t].status = "raised" /\ result[t].exc \in DispatcherErrors)

\* C15: transient conditions (timeout, connection error, 503, 429) and the
\* benign 404 on a cancel are absorbed: a call whose request last met one of
\* them does not end by raising to its caller or by ending the process.
C15_TransientAbsorbed ==
  \A t \in Threads :
    \/ call[t].last \in Retryable
    \/ CancelRequest(call[t].input) /\ call[t].last = "404"
    => ~Failed(t)

\* C16: between a retryable failure and the re-dispatch that follows it the
\* dispatcher has slept 0 seconds after a timeout, 1 second after a connection
\* error and 3 seconds after a 503, in both dispatchers: this holds of every
\* frame that is in retry() or about to dispatch its request again.
C16_WaitBeforeRedispatch ==
  \A t \in Threads : \A i \in 1..Depth(t) :
    LET f == stack[t][i]
    IN f.pc \in {"retry_load", "retry_store", "retry_check", "send"} =>
         /\ f.response = "Timeout" => f.slept = 0
         /\ f.response = "ConnectionError" => f.slept = 1
         /\ f.response = "503" => f.slept = 3

C16_Witness ==
  \E t \in Threads :
    /\ Depth(t) = 1 /\ Top(t).fn = "public" /\ Top(t).pc = "send"
    /\ Top(t).response = "503" /\ Top(t).slept = 3
    /\ call[t].dispatches = 1

\* The arguments the caller of buy, sell or place_order gave.
Args(t) == call[t].input.args[1]
\* The call of t was made through facade method m.
Through(t, m) == call[t].input.facade = m
\* The call of t has handed a request to the dispatcher.
Dispatching(t) == Running(t) \/ call[t].dispatches > 0

\* C17: place_order with an order type other than Market and a price <= 0
\* raises the input error and hands no request to the dispatcher.
C17_NonPositivePriceRejected ==
  \A t \in Threads :
    (/\ Through(t, "place_order") /\ Args(t).ordertpye # "Market"
     /\ Args(t).price # None /\ Args(t).price[1] <= 0)
      => result[t] = Raised("PriceError") /\ ~Dispatching(t)

\* C18: an order that sell(symbol, q, ...) hands to the dispatcher has
\* orderQty -q, one that buy(symbol, q, ...) hands to it has orderQty q.
C18_SellNegatesQuantity ==
  \A t \in Threads :
    Dispatching(t) =>
      /\ Through(t, "sell") => call[t].input.postdict.orderQty = -Args(t).quantity
      /\ Through(t, "buy") => call[t].input.postdict.orderQty = Args(t).quantity
      /\ (Running(t) /\ (Through(t, "sell") \/ Through(t, "buy")))
           => stack[t][1].postdict = call[t].input.postdict

C18_Witness ==
  \E t \in Threads :
    /\ Through(t, "sell") /\ Args(t).quantity = 2
    /\ call[t].dispatches = 1 /\ call[t].last = "200"
    /\ call[t].input.postdict.orderQty = -2
    /\ result[t].status = "returned"

\* The acknowledgement that was read and the status returned for it.
Ack == ackMsg[1]
Status == orderStatus[1][1]
FilledNotWorking == Ack.ordStatus = "Filled" /\ ~Ack.workingIndicator
NewWorking == Ack.ordStatus = "New" /\ Ack.workingIndicator

\* C19: the classification is exclusive: FILLED is returned only for ordStatus
\* Filled with workingIndicator false, ACTIVE only for ordStatus New with
\* workingIndicator true, and every other combination that is not Canceled
\* gets UNKNOWN.
C19_ClassificationExclusive ==
  orderStatus # None =>
    /\ Status = "FILLED" => FilledNotWorking
    /\ Status = "ACTIVE" => NewWorking
    /\ (Ack.ordStatus # "Canceled" /\ ~FilledNotWorking /\ ~NewWorking)
         => Status = "UNKNOWN"

\* C20: for ordStatus Filled with workingIndicator false the result is FILLED
\* with the parsed price, cumQty and leavesQty; for New with workingIndicator
\* true it is ACTIVE and for Canceled it is CXLED, both without traded values.
C20_StatusAndTradedValues ==
  orderStatus # None =>
    /\ FilledNotWorking =>
         orderStatus[1] = <<"FILLED", Some(Ack.price.v), Some(Ack.cumQty.v),
                            Some(Ack.leavesQty.v)>>
    /\ NewWorking => orderStatus[1] = <<"ACTIVE", None, None, None>>
    /\ Ack.ordStatus = "Canceled" => orderStatus[1] = <<"CXLED", None, None, None>>

C20_Witness ==
  /\ orderStatus # None
  /\ FilledNotWorking
  /\ Ack.price = [json |-> "string", v |-> 11]
  /\ Ack.cumQty.v = 2
  /\ orderStatus[1] = <<"FILLED", Some(11), Some(2), Some(0)>>

\* C23: a call that has no retry left (a POST or PUT without override, a
\* withdraw) fails at once on a retryable failure: while it runs it has made
\* no backoff sleep and has started no cancel-all recovery.
C23_NoBackoffWithoutRetryLeft ==
  \A t \in Threads :
    (NotRetried(call[t].input) /\ Running(t)) =>
      /\ Depth(t) = 1
      /\ stack[t][1].slept <= 0
      /\ ~call[t].nested

\* The call of t has returned to its caller without an exception.
ReturnedNormally(t) ==
  ~Running(t) /\ result[t].status \in {"returned", "returned_none"}

\* C24: whenever a call has returned normally, by a 200, by the 404 on a
\* DELETE or by the duplicate clOrdID recovery, the attempt counter (once the
\* client has one) is zero.
C24_CounterZeroOnReturn ==
  \A t \in Threads :
    (ReturnedNormally(t) /\ retries_defined) => retries = 0

\* C25: on a client as constructed the attempt counter is defined, so a GET or
\* DELETE call whose request met a timeout, a connection error or a 503 does
\* not end in the error of a missing attribute.
C25_CounterDefinedAtConstruction ==
  \A t \in Threads :
    (/\ RetriedByDefault(call[t].input)
     /\ call[t].last \in {"Timeout", "ConnectionError", "503"}
     /\ Ended(t))
      => result[t] # Raised("AttributeError")

\* C26: the duplicate clOrdID recovery returns a result only when the re-fetch
\* returned an order for every submitted order: not for a re-fetch of fewer
\* orders than were submitted, an empty list included.
C26_RecoveryNeedsEveryOrder ==
  \A t \in Threads :
    (call[t].last = "400dup" /\ call[t].compared /\ ReturnedNormally(t))
      => Len(call[t].fetched) >= call[t].input.postdict.n

\* C27: an order of a type other than Market that buy or sell was given a
\* price for is handed to the dispatcher with that price: the call does not
\* end without a dispatch, and the postdict carries the caller's price.
C27_BuySellCarryPrice ==
  \A t \in Threads :
    (/\ Through(t, "buy") \/ Through(t, "sell")
     /\ Args(t).ordertpye # "Market"
     /\ Args(t).price = Some(10))
      => /\ Dispatching(t)
         /\ call[t].input.postdict.priced
         /\ call[t].input.postdict.price = 10


\* ------------------------------------------------------------------ signing
\* The frames of thread t that have been dispatched at least once.
Dispatched(t) ==
  {i \in 1..Depth(t) : stack[t][i].pc # "send" \/ stack[t][i].response # "none"}

\* A frame of the authenticated dispatcher called with private=True.
Authenticated(f) == f.fn = "private" /\ f.private

ExpiryHeaders == {"api-expires", "api-key", "api-signature"}

C22_ExpiryStrategyOnly ==
  \A t \in Threads : \A i \in Dispatched(t) :
    Authenticated(stack[t][i]) => DOMAIN stack[t][i].headers = ExpiryHeaders

\* The cancel request of a rate-limit recovery has been dispatched.
C22_Witness ==
  \E t \in Threads :
    /\ At(t, "handle") /\ Depth(t) = 2
    /\ Top(t).role = "cancel" /\ Authenticated(Top(t))
    /\ "api-nonce" \notin DOMAIN Top(t).headers

\* C28: every dispatch of an authenticated request, a re-dispatch after a
\* sleep included, carries the api-expires of the clock reading at that
\* dispatch plus 5 seconds.
C28_SignedAtDispatch ==
  \A t \in Threads : \A i \in Dispatched(t) :
    LET f == stack[t][i]
    IN Authenticated(f) =>
         f.headers["api-expires"] = ToString(f.clock + GracePeriod)

\* A request is dispatched again after the recovery and the sleep of a 429,
\* at the latest clock reading.
C28_Witness ==
  \E t \in Threads :
    /\ At(t, "handle") /\ Depth(t) = 1 /\ Authenticated(Top(t))
    /\ call[t].dispatches = 2 /\ call[t].n429 = 1 /\ call[t].last = "503"
    /\ Top(t).clock = MaxClock

\* The facade methods that place, amend, list and cancel orders.
OrderLifecycle ==
  {"place_order", "buy", "sell", "amend_bulk_orders", "create_bulk_orders",
   "active_orders", "cancel"}

\* C29: every request sent while an order-lifecycle call runs carries the
\* signed authentication headers: the call's own request, the open-orders
\* query and the cancel request of a rate-limit recovery, and the re-fetch of
\* a duplicate-identifier recovery.
C29_EveryRequestSigned ==
  \A t \in Threads : \A i \in Dispatched(t) :
    call[t].input.facade \in OrderLifecycle =>
      DOMAIN stack[t][i].headers = ExpiryHeaders

====
